---- MODULE Spec2Model ----
(***************************************************************************)
(* Model of src/app.py: the FinMind resolver fetch_finmind_data_history,   *)
(* the yfinance extraction extract_value, the per-company pipeline         *)
(* fetch_and_upload_data and the batch loops that drive it.                *)
(*                                                                         *)
(* Conventions of the model                                                *)
(*  - A Python str that the code compares or sorts (period keys, dates) is *)
(*    a sequence of Unicode code points, compared as Python compares str.  *)
(*  - A provider value is a record [k, n]: k = "num" carries the number n, *)
(*    k = "none" is Python None, k = "nan" is float('nan').  EPS numbers   *)
(*    are carried in hundredths (1.23 is n = 123); monetary numbers are    *)
(*    integers in native units.                                            *)
(*  - A rendered cell is a record [t, n, tag]: t = "num" is the output of  *)
(*    f"{int(v/1000):,}", t = "eps" of f"{v:.2f}" (n in hundredths),       *)
(*    t = "pct" of f"{r:.2f}%" (n in hundredths of a percent), t = "nan"   *)
(*    the text "nan", t = "dash" the text "-"; tag is the text appended.   *)
(*  - A row dict {"項目": item, key: cell, ...} is [item, cols, note]:     *)
(*    cols is the ordered list of <<key, cell>> pairs in insertion order,  *)
(*    note the value stored under the key "說明" ("" when absent).         *)
(***************************************************************************)
EXTENDS Integers, Sequences, FiniteSets, TLC

(***************************************************************************)
(* Python str as code points                                               *)
(***************************************************************************)
RECURSIVE Digits(_)
Digits(n) == IF n < 10 THEN <<48 + n>> ELSE Digits(n \div 10) \o <<48 + (n % 10)>>

\* str(n) for an integer n, as f"{n}" renders it
Str(n) == IF n < 0 THEN <<45>> \o Digits(-n) ELSE Digits(n)

\* f"{n:02d}" for 0 <= n
Pad2(n) == IF n < 10 THEN <<48>> \o Digits(n) ELSE Digits(n)

RECURSIVE StrLess(_, _)
\* a < b on Python str: lexicographic on code points, a proper prefix is smaller
StrLess(a, b) ==
    IF b = <<>> THEN FALSE
    ELSE IF a = <<>> THEN TRUE
    ELSE IF Head(a) # Head(b) THEN Head(a) < Head(b)
    ELSE StrLess(Tail(a), Tail(b))

\* the text "年 Q" between the year and the quarter digit
YearQ == <<24180, 32, 81>>

\* the text "未知季度"
UnknownQuarter == <<26410, 30693, 23395, 24230>>

\* the text " (月)"
MonthSuffix == <<32, 40, 26376, 41>>

(***************************************************************************)
(* Dates.  A date is [ok, y, m, d]; ok = FALSE is a text that              *)
(* datetime.strptime(.., '%Y-%m-%d') rejects.                              *)
(***************************************************************************)
Date(y, m, d) == [ok |-> TRUE, y |-> y, m |-> m, d |-> d]

BadDate == [ok |-> FALSE, y |-> 0, m |-> 0, d |-> 0]

\* the 'YYYY-MM-DD' text of a date (a rejected text is modelled as "bad")
DateStr(dt) ==
    IF dt.ok THEN Str(dt.y) \o <<45>> \o Pad2(dt.m) \o <<45>> \o Pad2(dt.d)
    ELSE <<98, 97, 100>>

QuarterOfMonthBug(m) == m \div 3 + 1

QuarterOfMonth(m) == (m - 1) \div 3 + 1

date_to_roc_quarter(dt) ==
    IF ~dt.ok THEN UnknownQuarter
    ELSE Str(dt.y - 1911) \o YearQ \o Str(QuarterOfMonth(dt.m))

get_quarter_from_date(dt) == <<dt.y, QuarterOfMonth(dt.m)>>

\* datetime comparison curr_dt > other
DateAfter(a, b) ==
    \/ a.y > b.y
    \/ a.y = b.y /\ a.m > b.m
    \/ a.y = b.y /\ a.m = b.m /\ a.d > b.d

(***************************************************************************)
(* Provider values and rendered cells                                      *)
(***************************************************************************)
Num(n) == [k |-> "num", n |-> n]

NoneV == [k |-> "none", n |-> 0]

NaNV == [k |-> "nan", n |-> 0]

\* bool(v) in an `if v:` test
Truthy(v) == v.k = "nan" \/ (v.k = "num" /\ v.n # 0)

\* pd.notna(v)
NotNa(v) == v.k = "num"

Cell(t, n, tag) == [t |-> t, n |-> n, tag |-> tag]

Dash == Cell("dash", 0, "")

\* n // 1000: division that rounds toward minus infinity
IntDiv1000Floor(n) == n \div 1000

\* int(n / 1000): true division, then truncation toward zero
IntDiv1000(n) == IF n >= 0 THEN n \div 1000 ELSE -((-n) \div 1000)

\* int(v / 1000) raises TypeError on None and ValueError on nan
MoneyRaises(v) == v.k # "num"

MoneyCell(v, tag) == Cell("num", IntDiv1000(v.n), tag)

\* f"{v:.2f}" raises TypeError on None; nan renders as the text "nan"
EpsRaises(v) == v.k = "none"

EpsCell(v) == IF v.k = "nan" THEN Cell("nan", 0, "") ELSE Cell("eps", v.n, "")

RECURSIVE LongDiv(_, _, _, _)
\* `steps` more decimal digits of r / b appended to acc, by long division (every product
\* stays below 10 * b); the result is <<digits, remainder>>
LongDiv(acc, r, b, steps) ==
    IF steps = 0 THEN <<acc, r>>
    ELSE LongDiv(acc * 10 + (r * 10) \div b, (r * 10) % b, b, steps - 1)

\* round(a * 10000 / b) to the nearest integer, ties to even, for b # 0
RoundDiv10000(a, b) ==
    LET sgn == IF (a < 0) # (b < 0) THEN -1 ELSE 1
        aa == IF a < 0 THEN -a ELSE a
        bb == IF b < 0 THEN -b ELSE b
        qr == LongDiv(aa \div bb, aa % bb, bb, 4)
        up == (2 * qr[2] > bb) \/ (2 * qr[2] = bb /\ qr[1] % 2 = 1)
    IN sgn * (IF up THEN qr[1] + 1 ELSE qr[1])

\* f"{(liab / assets) * 100:.2f}%"
PctCell(liab, assets) == Cell("pct", RoundDiv10000(liab, assets), "")

(***************************************************************************)
(* Ordered dicts (row dicts, final_struct entries)                         *)
(***************************************************************************)
DictKeys(dct) == {dct[i][1] : i \in 1..Len(dct)}

DictGet(dct, key) == dct[CHOOSE i \in 1..Len(dct) : dct[i][1] = key][2]

\* dct[key] = val: an existing key keeps its position
DictSet(dct, key, val) ==
    IF key \in DictKeys(dct)
    THEN [i \in 1..Len(dct) |-> IF dct[i][1] = key THEN <<key, val>> ELSE dct[i]]
    ELSE Append(dct, <<key, val>>)

RowDict(item, cols, note) == [item |-> item, cols |-> cols, note |-> note]

(***************************************************************************)
(* FinMind resolver: fetch_finmind_data_history                            *)
(* A statement row is [date, type, value]; a monthly row [date, revenue].  *)
(***************************************************************************)
eps_keys == {"EPS", "BasicEarningsPerShare", "EarningsPerShare", "NetIncomePerShare"}

rev_keys ==
    {"OperatingRevenue", "Revenue", "TotalOperatingRevenue", "NetRevenue", "SalesRevenue",
     "NetSales", "InterestIncome", "InsuranceRevenue", "GrossProfit"}

\* "Revenue" in t, over the labels of the model
ContainsRevenue(t) ==
    t \in {"OperatingRevenue", "Revenue", "TotalOperatingRevenue", "NetRevenue",
           "SalesRevenue", "InsuranceRevenue", "OtherRevenue", "NonOperatingRevenue"}

\* "Non" in t, over the labels of the model
ContainsNon(t) == t \in {"NonOperatingRevenue"}

assets_keys == <<"TotalAssets", "Assets">>

liabs_keys == <<"TotalLiabilities", "Liabilities">>

cur_assets_keys == <<"CurrentAssets", "TotalCurrentAssets", "AssetsCurrent">>

cur_liabs_keys == <<"CurrentLiabilities", "TotalCurrentLiabilities", "LiabilitiesCurrent">>

cf_keys ==
    {"NetCashInflowFromOperatingActivities", "CashFlowsFromOperatingActivities",
     "CashFlowFromOperatingActivities"}

REV_PRIORITY ==
    <<"OperatingRevenue", "Revenue", "TotalOperatingRevenue", "NetRevenue", "SalesRevenue",
      "NetSales", "InterestIncome", "GrossProfit">>

EPS_PRIORITY == <<"EPS", "BasicEarningsPerShare", "EarningsPerShare">>

CF_PRIORITY ==
    <<"NetCashInflowFromOperatingActivities", "CashFlowsFromOperatingActivities",
      "CashFlowFromOperatingActivities">>

Range(s) == {s[i] : i \in 1..Len(s)}

\* number of quarter buckets the resolver keeps
KeepQuarters == 6

\* number of monthly rows appended to the revenue row
KeepMonths == 8

NoCandidates == [x \in {} |-> NoneV]

NewBucket(dt) ==
    [EPS_Candidates |-> NoCandidates, Rev_Candidates |-> NoCandidates,
     CF_Candidates |-> NoCandidates, Assets |-> NoneV, Liabs |-> NoneV,
     CurAssets |-> NoneV, CurLiabs |-> NoneV, DateObj |-> dt]

\* the bucket of q_str, created on first use with the date of the observation
EnsureBucket(qb, q_str, dt) ==
    IF q_str \in DOMAIN qb THEN qb ELSE (q_str :> NewBucket(dt)) @@ qb

\* DateObj keeps the latest date seen in the quarter
TouchDate(bucket, dt) ==
    IF DateAfter(dt, bucket.DateObj) THEN [bucket EXCEPT !.DateObj = dt] ELSE bucket

\* the assignment add_candidate ends with: candidates are kept per label, the balance
\* sheet fields hold the value of the last row seen
StoreCandidate(bucket, category, key, value) ==
    CASE category = "EPS" ->
             [bucket EXCEPT !.EPS_Candidates = (key :> value) @@ bucket.EPS_Candidates]
      [] category = "Rev" ->
             [bucket EXCEPT !.Rev_Candidates = (key :> value) @@ bucket.Rev_Candidates]
      [] category = "CF" ->
             [bucket EXCEPT !.CF_Candidates = (key :> value) @@ bucket.CF_Candidates]
      [] category = "Assets" -> [bucket EXCEPT !.Assets = value]
      [] category = "Liabs" -> [bucket EXCEPT !.Liabs = value]
      [] category = "CurAssets" -> [bucket EXCEPT !.CurAssets = value]
      [] category = "CurLiabs" -> [bucket EXCEPT !.CurLiabs = value]
      [] OTHER -> bucket

PutCandidate(qb, q_str, dt, category, key, value) ==
    (q_str :> StoreCandidate(TouchDate(qb[q_str], dt), category, key, value)) @@ qb

\* acc = [raised, qb]: qb is quarter_buckets, raised says an exception left the function
\* (datetime.strptime on a date text it rejects)
add_candidate(acc, dt, category, key, value) ==
    IF acc.raised THEN acc
    ELSE IF ~dt.ok THEN [acc EXCEPT !.raised = TRUE]
    ELSE [acc EXCEPT !.qb = PutCandidate(EnsureBucket(acc.qb, date_to_roc_quarter(dt), dt),
                                         date_to_roc_quarter(dt), dt, category, key, value)]

RECURSIVE IngestEPS(_, _)
\* section A: EPS rows of the income statement
IngestEPS(acc, rows) ==
    IF rows = <<>> THEN acc
    ELSE LET row == Head(rows)
         IN IngestEPS(IF row.type \in eps_keys
                      THEN add_candidate(acc, row.date, "EPS", row.type, row.value)
                      ELSE acc, Tail(rows))

RECURSIVE IngestRev(_, _)
\* section B: revenue rows of the income statement, by keyword then by fuzzy match
IngestRev(acc, rows) ==
    IF rows = <<>> THEN acc
    ELSE LET row == Head(rows)
         IN IngestRev(IF row.type \in rev_keys
                      THEN add_candidate(acc, row.date, "Rev", row.type, row.value)
                      ELSE IF ContainsRevenue(row.type) /\ ~ContainsNon(row.type)
                      THEN add_candidate(acc, row.date, "Rev", row.type, row.value)
                      ELSE acc, Tail(rows))

\* `if t in [..]: add_candidate(d, category, t, v)`
AddIfIn(acc, row, keys, category) ==
    IF row.type \in Range(keys)
    THEN add_candidate(acc, row.date, category, row.type, row.value) ELSE acc

BalanceRow(acc, row) ==
    AddIfIn(AddIfIn(AddIfIn(AddIfIn(acc, row, assets_keys, "Assets"),
                            row, liabs_keys, "Liabs"),
                    row, cur_assets_keys, "CurAssets"),
            row, cur_liabs_keys, "CurLiabs")

RECURSIVE IngestBalance(_, _)
\* section C: balance sheet rows
IngestBalance(acc, rows) ==
    IF rows = <<>> THEN acc ELSE IngestBalance(BalanceRow(acc, Head(rows)), Tail(rows))

RECURSIVE IngestCash(_, _)
\* section D: cash flow rows
IngestCash(acc, rows) ==
    IF rows = <<>> THEN acc
    ELSE LET row == Head(rows)
         IN IngestCash(IF row.type \in cf_keys
                       THEN add_candidate(acc, row.date, "CF", row.type, row.value)
                       ELSE acc, Tail(rows))

\* quarter_buckets after sections A to D
BuildBuckets(data_income, data_balance, data_cash) ==
    IngestCash(
        IngestBalance(
            IngestRev(IngestEPS([raised |-> FALSE, qb |-> <<>>], data_income), data_income),
            data_balance),
        data_cash)

RECURSIVE BuildMonthlyMap(_, _)
\* section 0: monthly_rev_map; a row whose date does not parse is skipped
BuildMonthlyMap(map, rows) ==
    IF rows = <<>> THEN map
    ELSE LET row == Head(rows)
         IN BuildMonthlyMap(IF row.date.ok
                            THEN (<<row.date.y, row.date.m>> :> row.revenue) @@ map
                            ELSE map, Tail(rows))

\* the values of the months of (year, quarter) present in monthly_rev_map, in month order
QuarterMonths(map, year, quarter) ==
    LET ms == <<3 * quarter - 2, 3 * quarter - 1, 3 * quarter>>
    IN SelectSeq([i \in 1..3 |-> IF <<year, ms[i]>> \in DOMAIN map
                                 THEN map[<<year, ms[i]>>] ELSE [k |-> "absent", n |-> 0]],
                 LAMBDA v : v.k # "absent")

RECURSIVE SumValues(_)
SumValues(vs) == IF vs = <<>> THEN 0 ELSE Head(vs).n + SumValues(Tail(vs))

\* [raises, ret]: total += None raises TypeError; a nan month makes the total nan;
\* no month found returns None
calculate_quarterly_rev(map, year, quarter) ==
    LET vs == QuarterMonths(map, year, quarter)
    IN [raises |-> \E i \in 1..Len(vs) : vs[i].k = "none",
        ret |-> IF Len(vs) = 0 THEN NoneV
                ELSE IF \E i \in 1..Len(vs) : vs[i].k = "nan" THEN NaNV
                ELSE Num(SumValues(vs))]

\* the first label of the priority list present among the candidates
PickByPriority(priority, cands) ==
    LET hits == {i \in 1..Len(priority) : priority[i] \in DOMAIN cands}
    IN IF hits = {} THEN [found |-> FALSE, value |-> NoneV]
       ELSE [found |-> TRUE,
             value |-> cands[priority[CHOOSE i \in hits : \A j \in hits : i <= j]]]

RECURSIVE SortedDesc(_)
\* sorted(keys, reverse=True) on a set of distinct str
SortedDesc(S) ==
    IF S = {} THEN <<>>
    ELSE LET top == CHOOSE x \in S : \A y \in S : ~StrLess(x, y)
         IN <<top>> \o SortedDesc(S \ {top})

Take(s, n) == SubSeq(s, 1, IF Len(s) < n THEN Len(s) ELSE n)

sorted_quarters(qb) == Take(SortedDesc(DOMAIN qb), KeepQuarters)

EmptyStruct ==
    [Revenue |-> <<>>, EPS |-> <<>>, TotalAssets |-> <<>>, TotalLiabilities |-> <<>>,
     CurrentAssets |-> <<>>, CurrentLiabilities |-> <<>>, DebtRatio |-> <<>>,
     OperatingCashFlow |-> <<>>]

\* an exception raised while bucket q is resolved (section E, one loop pass)
QuarterRaises(bucket, monthly) ==
    LET eps == PickByPriority(EPS_PRIORITY, bucket.EPS_Candidates)
        rev == PickByPriority(REV_PRIORITY, bucket.Rev_Candidates)
        cf == PickByPriority(CF_PRIORITY, bucket.CF_Candidates)
        yq == get_quarter_from_date(bucket.DateObj)
        calc == calculate_quarterly_rev(monthly, yq[1], yq[2])
    IN \/ eps.found /\ EpsRaises(eps.value)
       \/ rev.found /\ MoneyRaises(rev.value)
       \/ ~rev.found /\ (calc.raises \/ (calc.ret.k # "none" /\ MoneyRaises(calc.ret)))
       \/ cf.found /\ MoneyRaises(cf.value)
       \/ Truthy(bucket.Assets) /\ MoneyRaises(bucket.Assets)
       \/ Truthy(bucket.Assets) /\ Truthy(bucket.Liabs) /\ MoneyRaises(bucket.Liabs)
       \/ Truthy(bucket.CurAssets) /\ MoneyRaises(bucket.CurAssets)
       \/ Truthy(bucket.CurLiabs) /\ MoneyRaises(bucket.CurLiabs)

\* 1. EPS: the first label of EPS_PRIORITY among the candidates
ResolveEPS(fs, bucket, q) ==
    LET eps == PickByPriority(EPS_PRIORITY, bucket.EPS_Candidates)
    IN IF eps.found THEN [fs EXCEPT !.EPS = DictSet(fs.EPS, q, EpsCell(eps.value))] ELSE fs

\* the monthly fallback cell: the sum of the months found, tagged "(月加總)"
MonthlySumCell(total) == MoneyCell(total, "monthly_sum")

\* 2. revenue: the quarterly statement first, then the sum of the monthly revenue
ResolveRevenue(fs, bucket, q, monthly) ==
    LET rev == PickByPriority(REV_PRIORITY, bucket.Rev_Candidates)
        yq == get_quarter_from_date(bucket.DateObj)
        calc == calculate_quarterly_rev(monthly, yq[1], yq[2])
    IN IF rev.found
       THEN [fs EXCEPT !.Revenue = DictSet(fs.Revenue, q, MoneyCell(rev.value, ""))]
       ELSE IF calc.ret.k # "none"
       THEN [fs EXCEPT !.Revenue = DictSet(fs.Revenue, q, MonthlySumCell(calc.ret))]
       ELSE fs

\* 3. operating cash flow
ResolveCF(fs, bucket, q) ==
    LET cf == PickByPriority(CF_PRIORITY, bucket.CF_Candidates)
    IN IF cf.found
       THEN [fs EXCEPT !.OperatingCashFlow =
                           DictSet(fs.OperatingCashFlow, q, MoneyCell(cf.value, ""))]
       ELSE fs

\* the test that lets the FinMind resolver render the debt ratio
RatioGuard(assets) == assets.n > 0

\* 4. total assets, then total liabilities and the debt ratio under them
ResolveBalance(fs, bucket, q) ==
    IF ~Truthy(bucket.Assets) THEN fs
    ELSE
        LET f1 == [fs EXCEPT !.TotalAssets =
                                 DictSet(fs.TotalAssets, q, MoneyCell(bucket.Assets, ""))]
        IN IF ~Truthy(bucket.Liabs) THEN f1
           ELSE
               LET f2 == [f1 EXCEPT !.TotalLiabilities =
                             DictSet(f1.TotalLiabilities, q, MoneyCell(bucket.Liabs, ""))]
               IN IF RatioGuard(bucket.Assets)
                  THEN [f2 EXCEPT !.DebtRatio =
                           DictSet(f2.DebtRatio, q, PctCell(bucket.Liabs.n, bucket.Assets.n))]
                  ELSE f2

ResolveCurrent(fs, bucket, q) ==
    LET f1 == IF Truthy(bucket.CurAssets)
              THEN [fs EXCEPT !.CurrentAssets =
                                  DictSet(fs.CurrentAssets, q, MoneyCell(bucket.CurAssets, ""))]
              ELSE fs
    IN IF Truthy(bucket.CurLiabs)
       THEN [f1 EXCEPT !.CurrentLiabilities =
                           DictSet(f1.CurrentLiabilities, q, MoneyCell(bucket.CurLiabs, ""))]
       ELSE f1

\* one pass of the loop `for q in sorted_quarters`
ResolveQuarter(fs, bucket, q, monthly) ==
    ResolveCurrent(
        ResolveBalance(
            ResolveCF(ResolveRevenue(ResolveEPS(fs, bucket, q), bucket, q, monthly), bucket, q),
            bucket, q),
        bucket, q)

RECURSIVE ResolveAll(_, _, _, _)
ResolveAll(fs, qb, quarters, monthly) ==
    IF quarters = <<>> THEN fs
    ELSE ResolveAll(ResolveQuarter(fs, qb[Head(quarters)], Head(quarters), monthly),
                    qb, Tail(quarters), monthly)

\* sorted(.., reverse=True) is stable: a row goes before the first row of a smaller date
InsertDesc(s, row) ==
    LET less == {i \in 1..Len(s) : StrLess(DateStr(s[i].date), DateStr(row.date))}
    IN IF less = {} THEN Append(s, row)
       ELSE LET p == CHOOSE i \in less : \A j \in less : i <= j
            IN SubSeq(s, 1, p - 1) \o <<row>> \o SubSeq(s, p, Len(s))

RECURSIVE SortRowsDesc(_, _)
SortRowsDesc(done, rows) ==
    IF rows = <<>> THEN done ELSE SortRowsDesc(InsertDesc(done, Head(rows)), Tail(rows))

\* the rows the monthly section renders: the latest KeepMonths by date text
MonthlyRows(data_rev) == Take(SortRowsDesc(<<>>, data_rev), KeepMonths)

\* m_key = f"{row['date'][:7]} (月)"
MonthKey(dt) == Take(DateStr(dt), 7) \o MonthSuffix

RECURSIVE AddMonthly(_, _)
AddMonthly(fs, rows) ==
    IF rows = <<>> THEN fs
    ELSE AddMonthly([fs EXCEPT !.Revenue =
                         DictSet(fs.Revenue, MonthKey(Head(rows).date),
                                 MoneyCell(Head(rows).revenue, ""))], Tail(rows))

\* the provenance row appended to every FinMind series
SourceRow == RowDict("Source", <<>>, "FinMind")

\* the row order of the FinMind series
order ==
    <<"Revenue", "TotalAssets", "TotalLiabilities", "DebtRatio", "CurrentAssets",
      "CurrentLiabilities", "EPS", "OperatingCashFlow">>

FormatList(fs) == [i \in 1..Len(order) |-> RowDict(order[i], fs[order[i]], "")] \o <<SourceRow>>

\* the value fetch_finmind_data_history returns: [some |-> FALSE] is None
NoneList == [some |-> FALSE, list |-> <<>>]

\* an exception raised by sections A to E or by the monthly section
ResolverRaises(acc, quarters, monthly, tail) ==
    \/ acc.raised
    \/ \E i \in 1..Len(quarters) : QuarterRaises(acc.qb[quarters[i]], monthly)
    \/ \E i \in 1..Len(tail) : MoneyRaises(tail[i].revenue)

\* sections E and after: any exception makes the function return None
ResolveBuckets(acc, quarters, monthly, tail) ==
    IF ResolverRaises(acc, quarters, monthly, tail) THEN NoneList
    ELSE [some |-> TRUE,
          list |-> FormatList(AddMonthly(ResolveAll(EmptyStruct, acc.qb, quarters, monthly),
                                         tail))]

SortAndResolve(acc, monthly, tail) == ResolveBuckets(acc, sorted_quarters(acc.qb), monthly, tail)

fetch_finmind_data_history(data_income_, data_balance_, data_cash_, data_rev_) ==
    IF data_income_ = <<>> /\ data_balance_ = <<>> /\ data_cash_ = <<>> /\ data_rev_ = <<>>
    THEN NoneList
    ELSE SortAndResolve(BuildBuckets(data_income_, data_balance_, data_cash_),
                        BuildMonthlyMap(<<>>, data_rev_), MonthlyRows(data_rev_))

(***************************************************************************)
(* yfinance path: the tables, extract_value and the row loop of            *)
(* fetch_and_upload_data.  A table is a statement already transposed:      *)
(* [labels, rows] with rows[date][label] the value (nan where missing).    *)
(***************************************************************************)
EmptyTable == [labels |-> {}, rows |-> <<>>]

\* DataFrame.empty
IsEmpty(t) == t.labels = {} \/ DOMAIN t.rows = {}

\* pd.concat([a.T, b.T, c.T], axis=1) followed by dropping the duplicated columns:
\* the first table that has a label supplies its column, nan where it lacks the date
Concat3(a, b, c) ==
    LET dates == DOMAIN a.rows \cup DOMAIN b.rows \cup DOMAIN c.rows
        labels == a.labels \cup b.labels \cup c.labels
        from(l) == IF l \in a.labels THEN a ELSE IF l \in b.labels THEN b ELSE c
    IN [labels |-> labels,
        rows |-> [d \in dates |->
                     [l \in labels |-> IF d \in DOMAIN from(l).rows
                                       THEN from(l).rows[d][l] ELSE NaNV]]]

RECURSIVE DatesDesc(_)
\* sort_index(ascending=False) on the dates of a table
DatesDesc(S) ==
    IF S = {} THEN <<>>
    ELSE LET top == CHOOSE x \in S : \A y \in S : ~DateAfter(y, x)
         IN <<top>> \o DatesDesc(S \ {top})

\* number of quarterly rows the primary path keeps
KeepYfQuarters == 12

df_q_index(df) == Take(DatesDesc(DOMAIN df.rows), KeepYfQuarters)

mapping ==
    << <<"Total Revenue", "Revenue">>, <<"Operating Revenue", "Revenue">>,
       <<"Total Assets", "TotalAssets">>,
       <<"Total Liabilities Net Minority Interest", "TotalLiabilities">>,
       <<"Total Liabilities", "TotalLiabilities">>,
       <<"Current Assets", "CurrentAssets">>, <<"Current Liabilities", "CurrentLiabilities">>,
       <<"Basic EPS", "EPS">>,
       <<"Operating Cash Flow", "OperatingCashFlow">>,
       <<"Total Cash From Operating Activities", "OperatingCashFlow">>,
       <<"Cash Flow From Continuing Operating Activities", "OperatingCashFlow">> >>

target_items ==
    <<"Revenue", "TotalAssets", "DebtRatio", "CurrentAssets", "CurrentLiabilities", "EPS",
      "OperatingCashFlow">>

\* df.loc[date_idx].get(label): None when the table has no such column
RowGet(df, d, label) == IF label \in df.labels THEN df.rows[d][label] ELSE NoneV

\* a or b
PyOr(a, b) == IF Truthy(a) THEN a ELSE b

\* the debt ratio branch of extract_value
ExtractRatio(df, d) ==
    LET liab == PyOr(RowGet(df, d, "Total Liabilities Net Minority Interest"),
                     RowGet(df, d, "Total Liabilities"))
        assets == RowGet(df, d, "Total Assets")
    IN IF Truthy(liab) /\ Truthy(assets)
       THEN IF liab.k = "nan" \/ assets.k = "nan" THEN Cell("nan", 0, "%")
            ELSE PctCell(liab.n, assets.n)
       ELSE Dash

\* the first column of the mapping, in its order, that maps to the target and is not nan
FoundVal(df, d, target_name) ==
    LET hits == {i \in 1..Len(mapping) :
                    /\ mapping[i][2] = target_name
                    /\ mapping[i][1] \in df.labels
                    /\ NotNa(df.rows[d][mapping[i][1]])}
    IN IF hits = {} THEN NoneV
       ELSE df.rows[d][mapping[CHOOSE i \in hits : \A j \in hits : i <= j][1]]

extract_value(df, d, target_name) ==
    IF target_name = "DebtRatio" THEN ExtractRatio(df, d)
    ELSE LET found_val == FoundVal(df, d, target_name)
         IN IF found_val.k = "none" THEN Dash
            ELSE IF target_name # "EPS" THEN MoneyCell(found_val, "")
            ELSE EpsCell(found_val)

RECURSIVE QuarterCols(_, _, _, _)
\* the loop over df_q_sorted.index: row_dict[date_to_roc_quarter(d)] = extract_value(..)
QuarterCols(cols, df, dates, target_name) ==
    IF dates = <<>> THEN cols
    ELSE QuarterCols(DictSet(cols, date_to_roc_quarter(Head(dates)),
                             extract_value(df, Head(dates), target_name)),
                     df, Tail(dates), target_name)

\* formatted_data of the primary path when the annual loop is not entered
PrimaryRows(df_q) ==
    [i \in 1..Len(target_items) |->
        RowDict(target_items[i], QuarterCols(<<>>, df_q, df_q_index(df_q), target_items[i]), "")]

\* the annual loop calls date_to_roc_year, a name the module never defines: entering
\* it raises NameError
AnnualLoopRaises(a_is_t) == ~IsEmpty(a_is_t)

(***************************************************************************)
(* Provider data the environment may return                                *)
(***************************************************************************)
Row(dt, t, v) == [date |-> dt, type |-> t, value |-> v]

MRow(dt, v) == [date |-> dt, revenue |-> v]

\* one-date table with the given label -> value function
Table1(dt, vals) == [labels |-> DOMAIN vals, rows |-> (dt :> vals)]

\* FinMind datasets of the pipeline runs (TaiwanStockFinancialStatements, ..BalanceSheet,
\* ..CashFlowsStatement, ..MonthRevenue); the third income dataset carries a None value
FmIncomePool ==
    { <<>>,
      <<Row(Date(2024, 3, 31), "EPS", Num(123)),
        Row(Date(2024, 3, 31), "Revenue", Num(5000000))>>,
      <<Row(Date(2024, 3, 31), "EPS", NoneV),
        Row(Date(2023, 12, 31), "Revenue", Num(4000000))>> }

FmBalancePool ==
    { <<>>,
      <<Row(Date(2024, 3, 31), "TotalAssets", Num(8000000)),
        Row(Date(2024, 3, 31), "TotalLiabilities", Num(2000000))>> }

FmCashPool ==
    { <<>>, <<Row(Date(2024, 3, 31), "CashFlowsFromOperatingActivities", Num(-1500))>> }

FmRevPool ==
    { <<>>, <<MRow(Date(2024, 1, 10), Num(989918318)), MRow(Date(2024, 2, 10), Num(1500))>> }

FmPools == <<FmIncomePool, FmBalancePool, FmCashPool, FmRevPool>>

\* yfinance statements of the pipeline runs
YfBalancePool ==
    { EmptyTable,
      Table1(Date(2024, 3, 31),
             ("Total Assets" :> Num(9000000)) @@
             ("Total Liabilities Net Minority Interest" :> Num(3000000))) }

YfIncomePool ==
    { EmptyTable,
      [labels |-> {"Basic EPS", "Total Revenue"},
       rows |-> (Date(2023, 3, 31) :> (("Basic EPS" :> Num(100)) @@ ("Total Revenue" :> Num(7100000))))
             @@ (Date(2023, 6, 30) :> (("Basic EPS" :> Num(120)) @@ ("Total Revenue" :> Num(7200000))))
             @@ (Date(2023, 9, 30) :> (("Basic EPS" :> Num(130)) @@ ("Total Revenue" :> Num(7300000))))
             @@ (Date(2023, 12, 31) :> (("Basic EPS" :> NaNV) @@ ("Total Revenue" :> Num(7400000))))] }

YfCashPool ==
    { EmptyTable, Table1(Date(2024, 3, 31), ("Operating Cash Flow" :> Num(-7500))) }

YfAnnualPool ==
    { EmptyTable, Table1(Date(2023, 12, 31), ("Basic EPS" :> Num(500))) }

(***************************************************************************)
(* State                                                                   *)
(***************************************************************************)
VARIABLES
    mode,           \* the caller: "tab1" (fill the missing), "tab2" (forced repair), "tab4"
    batch,          \* the company codes the caller iterates over
    idx,            \* position of the batch loop
    pc,             \* position inside the loop and inside fetch_and_upload_data
    db,             \* underwriting_cache: code -> record
    results,        \* the (ok, msg) pairs the calls returned, in order
    q_bs, q_is, q_cf, a_is,                          \* yfinance tables of the current call
    data_income, data_balance, data_cash, data_rev,  \* FinMind datasets of the current call
    fm_k,           \* the FinMind dataset requested next (1..4)
    formatted_data, source_used, ret,                \* locals and return value of the call
    calls           \* the external calls of the current call, in order

vars ==
    <<mode, batch, idx, pc, db, results, q_bs, q_is, q_cf, a_is, data_income, data_balance,
      data_cash, data_rev, fm_k, formatted_data, source_used, ret, calls>>

\* number of companies of a batch
NumCompanies == 2

NoRecord == [name |-> "", financial_data |-> <<>>, present |-> FALSE]

\* a record a former run left: a FinMind series without a revenue cell
OldRecord ==
    [name |-> "old", financial_data |-> FormatList(EmptyStruct), present |-> TRUE]

NoRet == [ok |-> FALSE, msg |-> "pending"]

force_finmind == mode = "tab2"

\* stock_name_tw: the batch loops pass the roster name, the manual tab passes none
stock_name_tw == IF mode = "tab4" THEN "" ELSE "roster_name"

stock_code == batch[idx]

LocalsInit ==
    /\ q_bs = EmptyTable /\ q_is = EmptyTable /\ q_cf = EmptyTable /\ a_is = EmptyTable
    /\ data_income = <<>> /\ data_balance = <<>> /\ data_cash = <<>> /\ data_rev = <<>>
    /\ fm_k = 1 /\ formatted_data = <<>> /\ source_used = "yfinance" /\ ret = NoRet
    /\ calls = <<>>

Init ==
    /\ mode \in {"tab1", "tab2", "tab4"}
    /\ batch = IF mode = "tab4" THEN <<1>> ELSE [i \in 1..NumCompanies |-> i]
    /\ idx = 1
    /\ pc = "loop"
    /\ db = [c \in 1..NumCompanies |-> IF mode = "tab2" THEN OldRecord ELSE NoRecord]
    /\ results = <<>>
    /\ LocalsInit

(***************************************************************************)
(* fetch_and_upload_data, step by step, and the loops that call it         *)
(***************************************************************************)
Failure(msg) == [ok |-> FALSE, msg |-> msg]

Success(msg) == [ok |-> TRUE, msg |-> msg]

\* where an exception raised by yf.Ticker(..) goes: the call is made before the try
\* block, so it leaves fetch_and_upload_data and the loop that called it
TickerRaised == "crashed"

\* the loop calls fetch_and_upload_data: suffix, ticker_symbol, yf.Ticker(ticker_symbol)
Construct ==
    /\ pc = "loop" /\ idx <= Len(batch)
    /\ \E raises \in BOOLEAN :
          pc' = IF raises THEN TickerRaised ELSE "try"
    /\ calls' = Append(calls, "Ticker")
    /\ UNCHANGED <<mode, batch, idx, db, results, q_bs, q_is, q_cf, a_is, data_income,
                   data_balance, data_cash, data_rev, fm_k, formatted_data, source_used, ret>>

\* force_finmind: the yfinance statements are not read
ForceFinMind ==
    /\ pc = "try" /\ force_finmind
    /\ pc' = "fm"
    /\ UNCHANGED <<mode, batch, idx, db, results, q_bs, q_is, q_cf, a_is, data_income,
                   data_balance, data_cash, data_rev, fm_k, formatted_data, source_used, ret,
                   calls>>

\* where the pipeline goes when reading the quarterly statements raises: the except
\* clause of fetch_and_upload_data returns (False, str(e))
QuarterlyRaised == "returned"

\* q_bs = stock.quarterly_balance_sheet; q_is = stock.quarterly_financials; the test
\* q_bs.empty or q_is.empty chooses between the FinMind fallback and the primary path
AccessQuarterly ==
    /\ pc = "try" /\ ~force_finmind
    /\ \/ /\ pc' = QuarterlyRaised
          /\ ret' = IF pc' = "returned" THEN Failure("exception") ELSE ret
          /\ calls' = Append(calls, "quarterly_raise")
          /\ UNCHANGED <<q_bs, q_is>>
       \/ \E bs \in YfBalancePool, is \in YfIncomePool :
             /\ q_bs' = bs /\ q_is' = is
             /\ pc' = IF IsEmpty(bs) \/ IsEmpty(is) THEN "fm" ELSE "primary"
             /\ calls' = Append(calls, "quarterly")
             /\ UNCHANGED ret
    /\ UNCHANGED <<mode, batch, idx, db, results, q_cf, a_is, data_income, data_balance,
                   data_cash, data_rev, fm_k, formatted_data, source_used>>

\* what get_fm_dataset returns when the request raises or the answer is not 'success'
FailedDataset == <<>>

\* get_fm_dataset(dataset_name), called for the four datasets in turn.  A request that
\* raises or is not answered with 'success' and an answer whose data list is empty hand
\* the same dataset to the resolver: the log of calls keeps one entry for both
GetFmDataset ==
    /\ pc = "fm" /\ fm_k <= 4
    /\ \E failed \in BOOLEAN, data \in FmPools[fm_k] :
          LET got == IF failed THEN FailedDataset ELSE data
          IN /\ data_income' = IF fm_k = 1 THEN got ELSE data_income
             /\ data_balance' = IF fm_k = 2 THEN got ELSE data_balance
             /\ data_cash' = IF fm_k = 3 THEN got ELSE data_cash
             /\ data_rev' = IF fm_k = 4 THEN got ELSE data_rev
             /\ failed <=> data = <<>>
             /\ calls' = Append(calls, IF failed THEN "fm_failed" ELSE "fm_ok")
    /\ fm_k' = fm_k + 1
    /\ UNCHANGED <<mode, batch, idx, pc, db, results, q_bs, q_is, q_cf, a_is,
                   formatted_data, source_used, ret>>

\* a fallback that keeps the rows built from the yfinance tables next to the FinMind rows
FallbackDataMerged(fm_data_list, primary_rows) == primary_rows \o fm_data_list.list

\* the series the fallback hands to persistence
FallbackData(fm_data_list, primary_rows) == fm_data_list.list

\* the rest of fetch_finmind_data_history and the `if fm_data_list:` test on its result
ResolveFinMind ==
    /\ pc = "fm" /\ fm_k = 5
    /\ \E fm_data_list \in
              {fetch_finmind_data_history(data_income, data_balance, data_cash, data_rev)} :
          IF fm_data_list.some
          THEN /\ source_used' = IF force_finmind THEN "FinMind_forced" ELSE "FinMind"
               /\ formatted_data' =
                      FallbackData(fm_data_list, PrimaryRows(Concat3(q_is, q_bs, q_cf)))
               /\ pc' = "upsert"
               /\ UNCHANGED ret
          ELSE /\ ret' = Failure(IF force_finmind THEN "no_finmind_data" ELSE "no_data_skip")
               /\ pc' = "returned"
               /\ UNCHANGED <<source_used, formatted_data>>
    /\ UNCHANGED <<mode, batch, idx, db, results, q_bs, q_is, q_cf, a_is, data_income,
                   data_balance, data_cash, data_rev, fm_k, calls>>

\* the primary path: the remaining statements are read, the tables joined, the rows built
BuildPrimary ==
    /\ pc = "primary"
    /\ \/ /\ ret' = Failure("exception")
          /\ pc' = "returned"
          /\ calls' = Append(calls, "statements_raise")
          /\ UNCHANGED <<q_cf, a_is, formatted_data>>
       \/ \E cf \in YfCashPool, ai \in YfAnnualPool :
             /\ q_cf' = cf /\ a_is' = ai
             /\ calls' = Append(calls, "statements")
             /\ IF AnnualLoopRaises(ai)
                THEN /\ ret' = Failure("exception")
                     /\ pc' = "returned"
                     /\ UNCHANGED formatted_data
                ELSE /\ formatted_data' = PrimaryRows(Concat3(q_is, q_bs, cf))
                     /\ pc' = "upsert"
                     /\ UNCHANGED ret
    /\ UNCHANGED <<mode, batch, idx, db, results, q_bs, q_is, data_income, data_balance,
                   data_cash, data_rev, fm_k, source_used>>

\* a payload keyed by the first company of the batch instead of the one of the call
payload_code_first == batch[1]

\* payload["code"]: the key of the upsert
payload_code == stock_code

\* underwriting_cache after the upsert of the payload
Upserted ==
    [db EXCEPT ![payload_code] =
        [name |-> IF stock_name_tw # "" THEN stock_name_tw ELSE "longName",
         financial_data |-> formatted_data, present |-> TRUE]]

\* final_name, payload, supabase upsert, return (True, ..).  stock.info (read only when no
\* name was passed) may raise before the upsert is issued; the upsert may raise, and then
\* the cache may or may not hold the payload
Upsert ==
    /\ pc = "upsert"
    /\ \/ /\ stock_name_tw = ""
          /\ ret' = Failure("exception")
          /\ calls' = Append(calls, "info_raise")
          /\ UNCHANGED db
       \/ /\ ret' = Failure("upsert_exception")
          /\ calls' = Append(calls, "upsert_raise")
          /\ db' \in {db, Upserted}
       \/ /\ db' = Upserted
          /\ ret' = Success(source_used)
          /\ calls' = Append(calls, "upsert")
    /\ pc' = "returned"
    /\ UNCHANGED <<mode, batch, idx, results, q_bs, q_is, q_cf, a_is, data_income,
                   data_balance, data_cash, data_rev, fm_k, formatted_data, source_used>>

\* the call returns to the loop: ok, _ = fetch_and_upload_data(..); the locals are gone
LoopStep ==
    /\ pc = "returned"
    /\ results' = Append(results, ret)
    /\ idx' = idx + 1
    /\ pc' = "loop"
    /\ q_bs' = EmptyTable /\ q_is' = EmptyTable /\ q_cf' = EmptyTable /\ a_is' = EmptyTable
    /\ data_income' = <<>> /\ data_balance' = <<>> /\ data_cash' = <<>> /\ data_rev' = <<>>
    /\ fm_k' = 1 /\ formatted_data' = <<>> /\ source_used' = "yfinance" /\ ret' = NoRet
    /\ calls' = <<>>
    /\ UNCHANGED <<mode, batch, db>>

\* the loop is exhausted: st.success(..)
LoopEnd ==
    /\ pc = "loop" /\ idx > Len(batch)
    /\ pc' = "finished"
    /\ UNCHANGED <<mode, batch, idx, db, results, q_bs, q_is, q_cf, a_is, data_income,
                   data_balance, data_cash, data_rev, fm_k, formatted_data, source_used, ret,
                   calls>>

(***************************************************************************)
(* Inputs of the data specification: the resolver and the primary row      *)
(* builder applied to families of provider answers                         *)
(***************************************************************************)
\* longest dataset of the label and date families
MaxRows == 2

SeqsUpTo(S, n) == UNION {[1..k -> S] : k \in 0..n}

FmInput(inc, bal, cash, rev) == [income |-> inc, balance |-> bal, cash |-> cash, rev |-> rev]

\* dates around one quarter: two days and two months of 100 Q1, the next quarter, the
\* quarter before (ROC 99), the same quarter a year later, and a text that does not parse
DatePool ==
    {Date(2011, 3, 31), Date(2011, 3, 29), Date(2011, 1, 31), Date(2011, 4, 1),
     Date(2010, 12, 31), Date(2012, 3, 31), BadDate}

\* EPS rows on any dates
FamilyDates ==
    {FmInput(inc, <<>>, <<>>, <<>>) :
        inc \in SeqsUpTo({Row(d, "EPS", v) : d \in DatePool, v \in {Num(150), Num(275)}},
                         MaxRows)}

\* income rows of one quarter under any labels, None among the values
FamilyIncome ==
    {FmInput(inc, <<>>, <<>>, <<>>) :
        inc \in SeqsUpTo({Row(Date(2011, 3, 31), t, v) :
                             t \in {"EPS", "BasicEarningsPerShare", "OperatingRevenue",
                                    "Revenue", "OtherRevenue", "NonOperatingRevenue"},
                             v \in {Num(1500000), Num(2750000), NoneV}}, MaxRows)}

\* balance sheet rows of one quarter under any labels
FamilyBalance ==
    {FmInput(<<>>, bal, <<>>, <<>>) :
        bal \in SeqsUpTo({Row(Date(2011, 3, 31), t, v) :
                             t \in {"TotalAssets", "Assets", "TotalLiabilities", "Liabilities",
                                    "CurrentAssets", "TotalCurrentAssets",
                                    "CurrentLiabilities", "LiabilitiesCurrent"},
                             v \in {Num(8000000), Num(-5000000), Num(2000000), NoneV}},
                         MaxRows)}

\* cash flow rows of one quarter under any labels
FamilyCash ==
    {FmInput(<<>>, <<>>, cash, <<>>) :
        cash \in SeqsUpTo({Row(Date(2011, 3, 31), t, v) :
                              t \in {"NetCashInflowFromOperatingActivities",
                                     "CashFlowsFromOperatingActivities",
                                     "CashFlowFromOperatingActivities"},
                              v \in {Num(-1500), Num(989918318)}}, MaxRows)}

\* monthly revenue of the months of 2011 Q1 and of April, in date order
MonthlyPool ==
    <<MRow(Date(2011, 1, 10), Num(1200000)), MRow(Date(2011, 2, 10), Num(1300999)),
      MRow(Date(2011, 3, 10), Num(1400000)), MRow(Date(2011, 4, 10), Num(1500000))>>

RECURSIVE Pick(_, _, _)
\* the rows of `pool` whose index is in `keep`, in pool order
Pick(pool, keep, i) ==
    IF i > Len(pool) THEN <<>>
    ELSE (IF i \in keep THEN <<pool[i]>> ELSE <<>>) \o Pick(pool, keep, i + 1)

\* any months of the pool, with or without a statement row of the quarter or of another
FamilyMonthly ==
    {FmInput(inc, <<>>, <<>>, Pick(MonthlyPool, keep, 1)) :
        keep \in SUBSET (1..Len(MonthlyPool)),
        inc \in {<<>>, <<Row(Date(2011, 3, 31), "EPS", Num(150))>>,
                 <<Row(Date(2011, 3, 31), "Revenue", Num(2750000))>>,
                 <<Row(Date(2011, 3, 31), "InsuranceRevenue", Num(2750000))>>,
                 <<Row(Date(2010, 12, 31), "EPS", Num(150))>>}}

\* quarter ends from ROC 99 Q2 to ROC 101 Q1, one total assets row each
QuarterEnds ==
    <<Row(Date(2010, 6, 30), "TotalAssets", Num(1000000)),
      Row(Date(2010, 9, 30), "TotalAssets", Num(2000000)),
      Row(Date(2010, 12, 31), "TotalAssets", Num(3000000)),
      Row(Date(2011, 3, 31), "TotalAssets", Num(4000000)),
      Row(Date(2011, 6, 30), "TotalAssets", Num(5000000)),
      Row(Date(2011, 9, 30), "TotalAssets", Num(6000000)),
      Row(Date(2011, 12, 31), "TotalAssets", Num(7000000)),
      Row(Date(2012, 3, 31), "TotalAssets", Num(8000000))>>

\* any set of the quarter ends
FamilyQuarters ==
    {FmInput(<<>>, Pick(QuarterEnds, keep, 1), <<>>, <<>>) :
        keep \in SUBSET (1..Len(QuarterEnds))}

FmInputs ==
    FamilyDates \cup FamilyIncome \cup FamilyBalance \cup FamilyCash \cup FamilyMonthly
    \cup FamilyQuarters

\* a value of a yfinance column, or no such column
Absent == [k |-> "absent", n |-> 0]

\* the one-date table of the columns that are not Absent
TableOf(dt, vals) ==
    Table1(dt, [l \in {x \in DOMAIN vals : vals[x] # Absent} |-> vals[l]])

\* quarterly balance sheets of one date: any total assets and liabilities
YfBalanceInputs ==
    {TableOf(Date(2024, 3, 31),
             ("Total Assets" :> ta) @@ ("Total Liabilities Net Minority Interest" :> tl)
             @@ ("Total Liabilities" :> tl2) @@ ("Current Assets" :> Num(4000000))) :
        ta \in {Num(9000000), Num(-5000000), Num(0), NaNV, Absent},
        tl \in {Num(3000000), Num(0), NaNV, Absent},
        tl2 \in {Num(1000000), Absent}}

\* quarterly income statements: the four quarters of 2023 with the last EPS missing, a
\* quarter whose first revenue label is nan, two quarters across ROC 99 and 100, and a
\* statement with a date on which every value is nan
YfIncomeInputs ==
    (YfIncomePool \ {EmptyTable}) \cup
    { Table1(Date(2024, 3, 31),
             ("Total Revenue" :> NaNV) @@ ("Operating Revenue" :> Num(6100000))
             @@ ("Basic EPS" :> Num(-45))),
      [labels |-> {"Basic EPS"},
       rows |-> (Date(2010, 12, 31) :> ("Basic EPS" :> Num(99)))
             @@ (Date(2011, 3, 31) :> ("Basic EPS" :> Num(100)))
             @@ (Date(2011, 3, 29) :> ("Basic EPS" :> Num(101)))],
      [labels |-> {"Basic EPS"},
       rows |-> (Date(2024, 3, 31) :> ("Basic EPS" :> Num(110)))
             @@ (Date(2023, 12, 31) :> ("Basic EPS" :> NaNV))] }

InitData ==
    /\ mode = "tab1" /\ batch = <<1>> /\ idx = 1
    /\ db = [c \in 1..NumCompanies |-> NoRecord]
    /\ results = <<>>
    /\ q_cf = EmptyTable /\ a_is = EmptyTable
    /\ formatted_data = <<>> /\ source_used = "yfinance" /\ ret = NoRet
    /\ \/ /\ pc = "fm" /\ fm_k = 5
          /\ q_bs = EmptyTable /\ q_is = EmptyTable
          /\ \E in \in FmInputs :
                /\ data_income = in.income /\ data_balance = in.balance
                /\ data_cash = in.cash /\ data_rev = in.rev
          /\ calls = <<"Ticker", "quarterly", "fm_ok", "fm_ok", "fm_ok", "fm_ok">>
       \/ /\ pc = "primary" /\ fm_k = 1
          /\ q_bs \in YfBalanceInputs /\ q_is \in YfIncomeInputs
          /\ data_income = <<>> /\ data_balance = <<>> /\ data_cash = <<>> /\ data_rev = <<>>
          /\ calls = <<"Ticker", "quarterly">>

NextData == ResolveFinMind \/ BuildPrimary

\* the resolver and the primary row builder on the input families
SpecData == InitData /\ [][NextData]_vars

Next ==
    \/ Construct
    \/ ForceFinMind
    \/ AccessQuarterly
    \/ GetFmDataset
    \/ ResolveFinMind
    \/ BuildPrimary
    \/ Upsert
    \/ LoopStep
    \/ LoopEnd

Spec == Init /\ [][Next]_vars

(***************************************************************************)
(* Reading a series and the inputs of the current call                     *)
(***************************************************************************)
HasRow(fd, item) == \E i \in 1..Len(fd) : fd[i].item = item

\* the columns of the row of `item` (none when the series has no such row)
ColsOf(fd, item) ==
    IF HasRow(fd, item) THEN fd[CHOOSE i \in 1..Len(fd) : fd[i].item = item].cols ELSE <<>>

HasCell(fd, item, key) == key \in DictKeys(ColsOf(fd, item))

CellAt(fd, item, key) == DictGet(ColsOf(fd, item), key)

\* every rendered cell of a series, the "-" sentinel left out
CellsOf(fd) ==
    {fd[i].cols[j][2] : <<i, j>> \in {p \in (1..Len(fd)) \X (1..8) : p[2] <= Len(fd[p[1]].cols)}}
    \ {Dash}

\* the call has returned and its locals are still in place
Returned == pc = "returned"

\* the call read the quarterly statements and found one of them empty
PrimaryEmpty ==
    /\ ~force_finmind
    /\ \E i \in 1..Len(calls) : calls[i] = "quarterly"
    /\ IsEmpty(q_bs) \/ IsEmpty(q_is)

FmRows == data_income \o data_balance \o data_cash

\* the FinMind observations of the call are all well formed
FmWellFormed ==
    /\ \A i \in 1..Len(FmRows) : FmRows[i].value.k = "num" /\ FmRows[i].date.ok
    /\ \A i \in 1..Len(data_rev) : data_rev[i].revenue.k = "num" /\ data_rev[i].date.ok

FmObservations == Len(FmRows) + Len(data_rev)

\* a persistence step of the call raised
PersistRaised == \E i \in 1..Len(calls) : calls[i] \in {"upsert_raise", "info_raise"}

\* the raw numbers among the FinMind observations of the call
FmNumbers ==
    {FmRows[i].value.n : i \in 1..Len(FmRows)} \cup
    {data_rev[i].revenue.n : i \in 1..Len(data_rev)}

FmBalanceNumbers == {data_balance[i].value.n : i \in 1..Len(data_balance)}

RECURSIVE SetSum(_)
SetSum(S) == IF S = {} THEN 0 ELSE LET x == CHOOSE y \in S : TRUE IN x + SetSum(S \ {x})

\* the sums of monthly revenue a quarter can show
FmMonthlySums ==
    {SetSum({data_rev[i].revenue.n : i \in I}) : I \in (SUBSET (1..Len(data_rev))) \ {{}}}

\* a cell that renders FinMind observations of the call and nothing else
FromSecondary(cell) ==
    \/ cell.t = "num" /\ cell.tag = "" /\ \E n \in FmNumbers : cell.n = IntDiv1000(n)
    \/ cell.t = "num" /\ cell.tag = "monthly_sum"
          /\ \E n \in FmMonthlySums : cell.n = IntDiv1000(n)
    \/ cell.t = "eps" /\ cell.n \in FmNumbers
    \/ cell.t = "pct" /\ \E a \in FmBalanceNumbers, l \in FmBalanceNumbers :
                            a > 0 /\ cell.n = RoundDiv10000(l, a)

\* the cells the primary tables of the call would render
PrimaryCells == CellsOf(PrimaryRows(Concat3(q_is, q_bs, q_cf)))

RevLabel(t) == t \in Range(REV_PRIORITY)

EpsLabel(t) == t \in Range(EPS_PRIORITY)

\* row i of the income dataset is well formed and alone for its metric in its quarter
LoneIncomeRow(i) ==
    /\ data_income[i].value.k = "num" /\ data_income[i].date.ok
    /\ RevLabel(data_income[i].type) \/ EpsLabel(data_income[i].type)
    /\ \A j \in (1..Len(data_income)) \ {i} :
          \/ ~data_income[j].date.ok
          \/ get_quarter_from_date(data_income[j].date)
                 # get_quarter_from_date(data_income[i].date)
          \/ RevLabel(data_income[j].type) # RevLabel(data_income[i].type)

\* the cell a lone income row must show
LoneIncomeCell(fd, i) ==
    LET r == data_income[i]
        item == IF RevLabel(r.type) THEN "Revenue" ELSE "EPS"
        key == Str(r.date.y - 1911) \o YearQ \o Str((r.date.m + 2) \div 3)
    IN /\ HasCell(fd, item, key)
       /\ CellAt(fd, item, key) =
              IF RevLabel(r.type) THEN MoneyCell(r.value, "") ELSE EpsCell(r.value)

\* the FinMind resolver ran in this call
FmResolved == fm_k = 5 /\ pc \in {"upsert", "returned"}

C6_MalformedValueIsolated ==
    (Returned /\ FmResolved /\ FmObservations >= 1 /\ ~PersistRaised) =>
        /\ ret.ok
        /\ db[stock_code].financial_data = formatted_data
        /\ \A i \in 1..Len(data_income) : LoneIncomeRow(i) => LoneIncomeCell(formatted_data, i)

(***************************************************************************)
(* C7  Transport failure fallback.  When reading the yfinance statements   *)
(* raises, FinMind is queried for the company before the call returns;     *)
(* and a failed FinMind request counts as an empty dataset while all four  *)
(* datasets are still requested.                                           *)
(***************************************************************************)
FmCalls == {i \in 1..Len(calls) : calls[i] \in {"fm_ok", "fm_failed"}}

C7_TransportFailureFallsBack ==
    /\ Returned =>
          \A i \in 1..Len(calls) :
              calls[i] \in {"quarterly_raise", "statements_raise"} =>
                  \E j \in FmCalls : j > i
    /\ FmResolved => Cardinality(FmCalls) = 4

(***************************************************************************)
(* C8  Batch isolation.  Whatever fails inside one call, the constructor   *)
(* of the provider handle included, the loop gets a (False, reason) result *)
(* for that company and goes on: when the loop stops, every company of the *)
(* batch has its result.                                                   *)
(***************************************************************************)
LoopStopped == pc \in {"finished", "crashed"}

C8_BatchReachesLastCompany ==
    mode \in {"tab1", "tab2"} =>
        /\ LoopStopped => Len(results) = Len(batch)
        /\ \A i \in 1..Len(results) : ~results[i].ok => results[i].msg # "pending"

(***************************************************************************)
(* Periods as the specification defines them: (calendar year, ceil(month / *)
(* 3)), shown as "<ROC year>年 Q<quarter>"                                 *)
(***************************************************************************)
PeriodOf(dt) == <<dt.y, (dt.m + 2) \div 3>>

PeriodKey(per) == Str(per[1] - 1911) \o YearQ \o Str(per[2])

\* per is a later period than other
PeriodAfter(per, other) == per[1] > other[1] \/ (per[1] = other[1] /\ per[2] > other[2])

\* the FinMind resolver or the primary row builder has produced the series of the call
FmBuilt == fm_k = 5 /\ pc \in {"upsert", "returned"} /\ formatted_data # <<>>

PrimaryBuilt == fm_k = 1 /\ pc \in {"upsert", "returned"} /\ formatted_data # <<>>

\* the primary row builder ran in this call, whether or not it produced a series
PrimaryRan == \E i \in 1..Len(calls) : calls[i] = "statements"

\* the periods of the FinMind statement rows and of the joined yfinance table of the call
FmPeriods == {PeriodOf(FmRows[i].date) : i \in {j \in 1..Len(FmRows) : FmRows[j].date.ok}}

YfDates == DOMAIN q_is.rows \cup DOMAIN q_bs.rows \cup DOMAIN q_cf.rows

YfPeriods == {PeriodOf(d) : d \in YfDates}

(***************************************************************************)
(* C2  Alias priority determinism.  For each of Revenue, EPS,              *)
(* OperatingCashFlow, TotalAssets, TotalLiabilities, CurrentAssets and     *)
(* CurrentLiabilities: when FinMind supplies exactly two observations of   *)
(* one period under the labels of rank 0 and rank 1, in either order, the  *)
(* cell of that metric and period renders the value of the rank 0 label.   *)
(***************************************************************************)
RankedLabels ==
    [Revenue |-> REV_PRIORITY, EPS |-> EPS_PRIORITY, OperatingCashFlow |-> CF_PRIORITY,
     TotalAssets |-> assets_keys, TotalLiabilities |-> liabs_keys,
     CurrentAssets |-> cur_assets_keys, CurrentLiabilities |-> cur_liabs_keys]

DatasetOf(metric) ==
    IF metric \in {"Revenue", "EPS"} THEN data_income
    ELSE IF metric = "OperatingCashFlow" THEN data_cash ELSE data_balance

\* the dataset of the metric is one rank 0 and one rank 1 observation of one period
RankPair(metric) ==
    LET ds == DatasetOf(metric)
    IN /\ Len(ds) = 2
       /\ {ds[1].type, ds[2].type} = {RankedLabels[metric][1], RankedLabels[metric][2]}
       /\ ds[1].date.ok /\ ds[2].date.ok /\ PeriodOf(ds[1].date) = PeriodOf(ds[2].date)
       /\ \A i \in 1..2 : ds[i].value.k = "num" /\ ds[i].value.n # 0

RankZeroValue(metric) ==
    LET ds == DatasetOf(metric)
    IN IF ds[1].type = RankedLabels[metric][1] THEN ds[1].value ELSE ds[2].value

C2_RankZeroWins ==
    (fm_k = 5 /\ pc \in {"upsert", "returned"}) =>
        \A metric \in DOMAIN RankedLabels :
            RankPair(metric) =>
                /\ HasCell(formatted_data, metric, PeriodKey(PeriodOf(DatasetOf(metric)[1].date)))
                /\ CellAt(formatted_data, metric, PeriodKey(PeriodOf(DatasetOf(metric)[1].date)))
                       = IF metric = "EPS" THEN EpsCell(RankZeroValue(metric))
                         ELSE MoneyCell(RankZeroValue(metric), "")

(***************************************************************************)
(* C3  Q4 imputation law, for EPS on the yfinance path.  In a fiscal year  *)
(* whose annual statement resolves A and whose Q1, Q2 and Q3 resolve while *)
(* Q4 is unresolved (or zero with |A| > 0.05), the Q4 cell of the series   *)
(* is A - (Q1 + Q2 + Q3), tagged as imputed; and in a fiscal year with no  *)
(* resolved quarter no Q4 cell is emitted.                                 *)
(***************************************************************************)
\* the quarterly EPS of period per: nan when no date of the period reports one
QuarterEps(per) ==
    LET ds == {d \in DOMAIN q_is.rows :
                  PeriodOf(d) = per /\ "Basic EPS" \in q_is.labels
                  /\ NotNa(q_is.rows[d]["Basic EPS"])}
    IN IF ds = {} THEN NaNV ELSE q_is.rows[CHOOSE d \in ds : TRUE]["Basic EPS"]

\* the fiscal years whose annual statement resolves an EPS
AnnualYears ==
    {d.y : d \in {x \in DOMAIN a_is.rows :
                     "Basic EPS" \in a_is.labels /\ NotNa(a_is.rows[x]["Basic EPS"])}}

AnnualEps(y) ==
    a_is.rows[CHOOSE d \in DOMAIN a_is.rows : d.y = y]["Basic EPS"].n

Abs(n) == IF n < 0 THEN -n ELSE n

\* Q1 to Q3 of year y resolve and Q4 is missing, or zero while the annual value is material
NeedsImputation(y) ==
    /\ \A q \in 1..3 : NotNa(QuarterEps(<<y, q>>))
    /\ \/ ~NotNa(QuarterEps(<<y, 4>>))
       \/ QuarterEps(<<y, 4>>).n = 0 /\ Abs(AnnualEps(y)) > 5

C3_Q4Imputation ==
    (PrimaryRan /\ pc \in {"upsert", "returned"}) =>
        \A y \in AnnualYears :
            /\ NeedsImputation(y) =>
                  /\ HasCell(formatted_data, "EPS", PeriodKey(<<y, 4>>))
                  /\ CellAt(formatted_data, "EPS", PeriodKey(<<y, 4>>)) =
                         Cell("eps",
                              AnnualEps(y) - (QuarterEps(<<y, 1>>).n + QuarterEps(<<y, 2>>).n
                                              + QuarterEps(<<y, 3>>).n),
                              "imputed")
            /\ (\A q \in 1..4 : ~NotNa(QuarterEps(<<y, q>>))) =>
                  \/ ~HasCell(formatted_data, "EPS", PeriodKey(<<y, 4>>))
                  \/ CellAt(formatted_data, "EPS", PeriodKey(<<y, 4>>)) = Dash

(***************************************************************************)
(* C4  Debt ratio guard.  On either path, a period whose TotalAssets is    *)
(* unresolved, zero or negative has no debt ratio: its DebtRatio cell is   *)
(* absent or the dash.                                                     *)
(***************************************************************************)
\* TotalAssets of the period is unresolved or not positive on every date the primary reports
YfAssetsUnusable(per) ==
    \A d \in {x \in YfDates : PeriodOf(x) = per} :
        LET ta == RowGet(Concat3(q_is, q_bs, q_cf), d, "Total Assets")
        IN ta.k # "num" \/ ta.n <= 0

\* no FinMind observation of the period gives a positive TotalAssets
FmAssetsUnusable(per) ==
    \A i \in 1..Len(data_balance) :
        (/\ data_balance[i].date.ok
         /\ PeriodOf(data_balance[i].date) = per
         /\ data_balance[i].type \in Range(assets_keys))
            => (data_balance[i].value.k # "num" \/ data_balance[i].value.n <= 0)

NoDebtRatio(per) ==
    \/ ~HasCell(formatted_data, "DebtRatio", PeriodKey(per))
    \/ CellAt(formatted_data, "DebtRatio", PeriodKey(per)) = Dash

C4_DebtRatioGuard ==
    /\ PrimaryBuilt => \A per \in YfPeriods : YfAssetsUnusable(per) => NoDebtRatio(per)
    /\ FmBuilt => \A per \in FmPeriods : FmAssetsUnusable(per) => NoDebtRatio(per)

(***************************************************************************)
(* C5  Partial-month revenue fallback.  A quarter with no quarterly        *)
(* Revenue observation and exactly two of its three monthly observations   *)
(* gets a Revenue cell holding the sum of the two months, flagged as a     *)
(* monthly sum, whether or not any other statement observation exists.     *)
(***************************************************************************)
\* the rows of the monthly dataset that fall into the period
MonthsOf(per) ==
    {i \in 1..Len(data_rev) : data_rev[i].date.ok /\ PeriodOf(data_rev[i].date) = per}

MonthlyPeriods ==
    {PeriodOf(data_rev[i].date) : i \in {j \in 1..Len(data_rev) : data_rev[j].date.ok}}

\* no quarterly Revenue observation of the period in the income statement
NoQuarterlyRevenue(per) ==
    \A i \in 1..Len(data_income) :
        (data_income[i].date.ok /\ PeriodOf(data_income[i].date) = per)
            => /\ data_income[i].type \notin Range(REV_PRIORITY)
               /\ ~ContainsRevenue(data_income[i].type)

C5_PartialMonthFallback ==
    (fm_k = 5 /\ pc \in {"upsert", "returned"}) =>
        \A per \in MonthlyPeriods :
            (/\ NoQuarterlyRevenue(per)
             /\ Cardinality(MonthsOf(per)) = 2
             /\ Cardinality({data_rev[i].date.m : i \in MonthsOf(per)}) = 2
             /\ \A i \in MonthsOf(per) : data_rev[i].revenue.k = "num")
                => /\ HasCell(formatted_data, "Revenue", PeriodKey(per))
                   /\ CellAt(formatted_data, "Revenue", PeriodKey(per)) =
                          MoneyCell(Num(SetSum({data_rev[i].revenue.n : i \in MonthsOf(per)})),
                                    "monthly_sum")

(***************************************************************************)
(* C9  Period bucketing tolerance.  Every observation lands in the column  *)
(* of its (calendar year, ceil(month / 3)) whatever its day of month, and  *)
(* a series has exactly one column per distinct such pair: observations of *)
(* one pair share a column, observations of different pairs never do.      *)
(***************************************************************************)
\* the indices of the FinMind EPS observations whose date parses
EpsObservations ==
    {i \in 1..Len(data_income) :
        data_income[i].date.ok /\ data_income[i].type \in Range(EPS_PRIORITY)}

EpsPeriods == {PeriodOf(data_income[i].date) : i \in EpsObservations}

\* the column keys of the series row of the metric
KeysOf(fd, item) == {ColsOf(fd, item)[i][1] : i \in 1..Len(ColsOf(fd, item))}

C9_OneColumnPerPeriod ==
    /\ (FmBuilt /\ Cardinality(FmPeriods) <= KeepQuarters) =>
          /\ \A i \in EpsObservations :
                PeriodKey(PeriodOf(data_income[i].date)) \in KeysOf(formatted_data, "EPS")
          /\ Cardinality(KeysOf(formatted_data, "EPS")) = Cardinality(EpsPeriods)
          /\ Len(ColsOf(formatted_data, "EPS")) = Cardinality(EpsPeriods)
    /\ (PrimaryBuilt /\ Cardinality(YfDates) <= KeepYfQuarters) =>
          \A r \in 1..Len(formatted_data) :
              /\ {formatted_data[r].cols[i][1] : i \in 1..Len(formatted_data[r].cols)}
                     = {PeriodKey(per) : per \in YfPeriods}
              /\ Len(formatted_data[r].cols) = Cardinality(YfPeriods)

\* two EPS observations of one quarter, on different days and months, share the one column
\* of the series, and two primary dates of one quarter share one column of three dates
C9_Witness ==
    \/ /\ FmBuilt
       /\ \E i, j \in EpsObservations :
             /\ data_income[i].date.m # data_income[j].date.m
             /\ data_income[i].date.d # data_income[j].date.d
             /\ PeriodOf(data_income[i].date) = PeriodOf(data_income[j].date)
       /\ Len(ColsOf(formatted_data, "EPS")) = Cardinality(EpsPeriods)
    \/ /\ PrimaryBuilt
       /\ Cardinality(YfDates) > Cardinality(YfPeriods)
       /\ Len(ColsOf(formatted_data, "EPS")) = Cardinality(YfPeriods)

(***************************************************************************)
(* C10  Column ordering.  The period columns of every series row run from  *)
(* the most recent period to the oldest, ROC 100 being later than ROC 99,  *)
(* and a series truncated to the latest N periods retains the N most       *)
(* recent periods.                                                         *)
(***************************************************************************)
\* the period a column key names, among the periods of the call's input
PeriodNamed(key, pers) == CHOOSE per \in pers : PeriodKey(per) = key

\* the quarter columns of the row run from the most recent period to the oldest
RecentFirst(cols, pers) ==
    \A i, j \in 1..Len(cols) :
        (/\ i < j
         /\ \E per \in pers : PeriodKey(per) = cols[i][1]
         /\ \E per \in pers : PeriodKey(per) = cols[j][1])
            => PeriodAfter(PeriodNamed(cols[i][1], pers), PeriodNamed(cols[j][1], pers))

\* the n most recent periods of the set
MostRecent(pers, n) ==
    {per \in pers : Cardinality({o \in pers : PeriodAfter(o, per)}) < n}

\* every statement row of the call is a positive total assets observation
OnlyTotalAssets ==
    /\ data_income = <<>> /\ data_cash = <<>> /\ data_balance # <<>>
    /\ \A i \in 1..Len(data_balance) :
          /\ data_balance[i].date.ok
          /\ data_balance[i].type = "TotalAssets"
          /\ data_balance[i].value.k = "num" /\ data_balance[i].value.n > 0

C10_MostRecentFirst ==
    /\ FmBuilt =>
          /\ \A r \in 1..Len(formatted_data) : RecentFirst(formatted_data[r].cols, FmPeriods)
          /\ OnlyTotalAssets =>
                KeysOf(formatted_data, "TotalAssets")
                    = {PeriodKey(per) : per \in MostRecent(FmPeriods, KeepQuarters)}
    /\ PrimaryBuilt =>
          \A r \in 1..Len(formatted_data) : RecentFirst(formatted_data[r].cols, YfPeriods)

(***************************************************************************)
(* C11  One row per canonical metric.  Every persisted series, built from  *)
(* yfinance or from FinMind, has exactly one row for each of the eight     *)
(* canonical metrics, and a TotalLiabilities observation that resolves for *)
(* a period is shown in that row whether or not TotalAssets resolves.      *)
(***************************************************************************)
CanonicalMetrics ==
    {"Revenue", "TotalAssets", "TotalLiabilities", "DebtRatio", "CurrentAssets",
     "CurrentLiabilities", "EPS", "OperatingCashFlow"}

RowsOf(fd, item) == {i \in 1..Len(fd) : fd[i].item = item}

\* the FinMind liabilities observations of the call that carry a non-zero number
LiabilityObservations ==
    {i \in 1..Len(data_balance) :
        /\ data_balance[i].date.ok
        /\ data_balance[i].type \in {"TotalLiabilities", "Liabilities"}
        /\ data_balance[i].value.k = "num" /\ data_balance[i].value.n # 0}

C11_OneRowPerMetric ==
    /\ \A c \in 1..NumCompanies :
          db[c].present =>
              \A m \in CanonicalMetrics : Cardinality(RowsOf(db[c].financial_data, m)) = 1
    /\ (Returned /\ ret.ok /\ fm_k = 5) =>
          \A i \in LiabilityObservations :
              HasCell(db[stock_code].financial_data, "TotalLiabilities",
                      PeriodKey(PeriodOf(data_balance[i].date)))

(***************************************************************************)
(* C12  Empty periods omitted.  On either path, a period is a column of    *)
(* the series only if some metric has a resolved cell for it: no column    *)
(* holds the "-" sentinel in every row that carries it.                    *)
(***************************************************************************)
\* the column keys of all rows of the series
AllKeys(fd) == UNION {KeysOf(fd, fd[r].item) : r \in 1..Len(fd)}

\* some row of the series has a cell under the key that is not the sentinel
Populated(fd, key) ==
    \E r \in 1..Len(fd) :
        \E j \in 1..Len(fd[r].cols) : fd[r].cols[j][1] = key /\ fd[r].cols[j][2] # Dash

C12_EmptyPeriodsOmitted ==
    (PrimaryBuilt \/ FmBuilt) =>
        \A key \in AllKeys(formatted_data) : Populated(formatted_data, key)

(***************************************************************************)
(* C13  Unit normalization.  Every displayed number of a monetary metric   *)
(* is a raw value of that metric and period divided by 1000 and truncated  *)
(* toward zero, for positive and negative values alike (989,918,318 shows  *)
(* 989,918 and -1,500 shows -1); a displayed EPS is the raw EPS itself.    *)
(***************************************************************************)
MoneyMetrics ==
    {"Revenue", "TotalAssets", "TotalLiabilities", "CurrentAssets", "CurrentLiabilities",
     "OperatingCashFlow"}

\* shown is raw / 1000 truncated toward zero
IsTruncated(shown, raw) ==
    /\ Abs(shown) * 1000 <= Abs(raw)
    /\ Abs(raw) < Abs(shown) * 1000 + 1000
    /\ shown > 0 => raw > 0
    /\ shown < 0 => raw < 0

\* the FinMind labels that feed a metric
FmFeeds(item, t) ==
    CASE item = "Revenue" -> t \in rev_keys \/ (ContainsRevenue(t) /\ ~ContainsNon(t))
      [] item = "EPS" -> t \in {"EPS", "BasicEarningsPerShare", "EarningsPerShare"}
      [] item = "TotalAssets" -> t \in {"TotalAssets", "Assets"}
      [] item = "TotalLiabilities" -> t \in {"TotalLiabilities", "Liabilities"}
      [] item = "CurrentAssets" -> t \in {"CurrentAssets", "TotalCurrentAssets", "AssetsCurrent"}
      [] item = "CurrentLiabilities" ->
             t \in {"CurrentLiabilities", "TotalCurrentLiabilities", "LiabilitiesCurrent"}
      [] item = "OperatingCashFlow" ->
             t \in {"NetCashInflowFromOperatingActivities", "CashFlowsFromOperatingActivities",
                    "CashFlowFromOperatingActivities"}
      [] OTHER -> FALSE

\* the raw FinMind numbers of the metric in the period the key names; for Revenue also the
\* monthly revenues and their sums
FmRaw(item, key) ==
    {FmRows[i].value.n :
        i \in {j \in 1..Len(FmRows) :
                  /\ FmRows[j].date.ok /\ FmRows[j].value.k = "num"
                  /\ FmFeeds(item, FmRows[j].type)
                  /\ PeriodKey(PeriodOf(FmRows[j].date)) = key}}
    \cup (IF item = "Revenue"
          THEN {data_rev[i].revenue.n : i \in 1..Len(data_rev)} \cup FmMonthlySums ELSE {})

\* the yfinance labels that feed a metric
YfFeeds(item) ==
    CASE item = "Revenue" -> {"Total Revenue", "Operating Revenue"}
      [] item = "EPS" -> {"Basic EPS"}
      [] item = "TotalAssets" -> {"Total Assets"}
      [] item = "TotalLiabilities" ->
             {"Total Liabilities Net Minority Interest", "Total Liabilities"}
      [] item = "CurrentAssets" -> {"Current Assets"}
      [] item = "CurrentLiabilities" -> {"Current Liabilities"}
      [] item = "OperatingCashFlow" ->
             {"Operating Cash Flow", "Total Cash From Operating Activities",
              "Cash Flow From Continuing Operating Activities"}
      [] OTHER -> {}

\* the raw yfinance numbers of the metric in the period the key names
YfRawOf(t, item, key) ==
    {t.rows[p[1]][p[2]].n :
        p \in {x \in (DOMAIN t.rows) \X (t.labels \cap YfFeeds(item)) :
                  PeriodKey(PeriodOf(x[1])) = key /\ t.rows[x[1]][x[2]].k = "num"}}

YfRaw(item, key) == YfRawOf(q_is, item, key) \cup YfRawOf(q_bs, item, key)
                    \cup YfRawOf(q_cf, item, key)

RawOf(item, key) == IF fm_k = 5 THEN FmRaw(item, key) ELSE YfRaw(item, key)

C13_TruncatedThousands ==
    (Returned /\ ret.ok) =>
        \A r \in 1..Len(db[stock_code].financial_data) :
            LET row == db[stock_code].financial_data[r]
            IN \A j \in 1..Len(row.cols) :
                  LET key == row.cols[j][1]
                      cell == row.cols[j][2]
                  IN /\ (row.item \in MoneyMetrics /\ cell # Dash) =>
                            /\ cell.t = "num"
                            /\ \E raw \in RawOf(row.item, key) : IsTruncated(cell.n, raw)
                     /\ (row.item = "EPS" /\ cell # Dash) =>
                            /\ cell.t = "eps"
                            /\ cell.n \in RawOf("EPS", key)

\* a FinMind series was persisted that shows -1,500 as -1, 989,918,318 as 989,918 and an
\* EPS of 1.23 as it came
C13_Witness ==
    /\ Returned /\ ret.ok /\ fm_k = 5
    /\ \E i \in 1..Len(data_cash) : data_cash[i].value = Num(-1500)
    /\ \E i \in 1..Len(data_rev) : data_rev[i].revenue = Num(989918318)
    /\ \E c \in CellsOf(db[stock_code].financial_data) : c = Cell("num", -1, "")
    /\ \E c \in CellsOf(db[stock_code].financial_data) : c = Cell("num", 989918, "")
    /\ \E c \in CellsOf(db[stock_code].financial_data) : c = Cell("eps", 123, "")

(***************************************************************************)
(* C14  Primary-path completion.  When yfinance returns non-empty          *)
(* quarterly balance-sheet and income tables and a non-empty annual income *)
(* statement and no provider or persistence call raises, the call returns  *)
(* success and persists a yfinance series whose rows carry quarter columns *)
(* and fiscal-year columns.                                                *)
(***************************************************************************)
\* no external call of the current invocation raised
NoCallRaised ==
    \A i \in 1..Len(calls) :
        calls[i] \notin {"quarterly_raise", "statements_raise", "upsert_raise", "info_raise"}

\* the invocation read non-empty quarterly tables and a non-empty annual income statement
PrimaryComplete ==
    /\ ~force_finmind
    /\ \E i \in 1..Len(calls) : calls[i] = "statements"
    /\ ~IsEmpty(q_bs) /\ ~IsEmpty(q_is) /\ ~IsEmpty(a_is)

QuarterKeys == {PeriodKey(per) : per \in YfPeriods}

C14_PrimaryPathCompletes ==
    (Returned /\ PrimaryComplete /\ NoCallRaised) =>
        /\ ret.ok /\ ret.msg = "yfinance"
        /\ db[stock_code].present
        /\ \A r \in 1..Len(db[stock_code].financial_data) :
              LET keys == KeysOf(db[stock_code].financial_data,
                                 db[stock_code].financial_data[r].item)
              IN /\ keys \cap QuarterKeys # {}
                 /\ keys \ QuarterKeys # {}

(***************************************************************************)
(* C15  Persistence frame.  An invocation issues at most one upsert, keyed *)
(* by the stock_code it was called with; it returns success only after the *)
(* upsert was issued; and when it returns a failure because no provider    *)
(* had data or a provider step raised, no upsert was issued and the record *)
(* of that company and of every other company is what it was before.       *)
(***************************************************************************)
\* the record every company has before the run
InitialRecord == IF mode = "tab2" THEN OldRecord ELSE NoRecord

\* what the invocation for the company of batch position c returned, NoRet when it has
\* not returned
OutcomeOf(c) ==
    IF c <= Len(results) THEN results[c]
    ELSE IF c = idx /\ c <= Len(batch) /\ Returned THEN ret ELSE NoRet

\* the upserts the current invocation issued, failed ones included
UpsertsIssued == {i \in 1..Len(calls) : calls[i] \in {"upsert", "upsert_raise"}}

C15_PersistenceFrame ==
    /\ Cardinality(UpsertsIssued) <= 1
    /\ (Returned /\ ret.ok) =>
          /\ calls[Len(calls)] = "upsert"
          /\ db[stock_code].present /\ db[stock_code].financial_data = formatted_data
    /\ (Returned /\ ~ret.ok /\ ret.msg # "upsert_exception") => UpsertsIssued = {}
    /\ \A c \in 1..NumCompanies :
          /\ OutcomeOf(c).ok => db[c] # InitialRecord
          /\ (~OutcomeOf(c).ok /\ OutcomeOf(c).msg # "upsert_exception") =>
                db[c] = InitialRecord

\* the forced repair of the second company failed for lack of FinMind data after the
\* first company was repaired: the second record is the one the former run left
C15_Witness ==
    /\ mode = "tab2" /\ idx = 2 /\ Returned
    /\ results[1].ok /\ db[1] # OldRecord
    /\ ~ret.ok /\ ret.msg = "no_finmind_data" /\ db[2] = OldRecord

====
